---- MODULE Spec2Model ----
(***************************************************************************)
(* Library Locator API (src/main.py): call-number normalisation, index     *)
(* construction, range matching, ranking and the /search and /health       *)
(* handlers over the module-level cache _rows.                             *)
(*                                                                         *)
(* Representation.                                                         *)
(*   - A Python str is a sequence of Unicode code points (integers), so    *)
(*     that "<" and ">" on strings are the code-point lexicographic order  *)
(*     Python uses.  "370.1" is <<51,55,48,46,49>>.  Character classes and *)
(*     case mappings are those of CPython 3.11 (Unicode 14.0).             *)
(*   - A Python float is named by a decimal: [kind |-> "fin", n |-> n,     *)
(*     k |-> k] is the double nearest to n / 10^k (what float() makes of   *)
(*     the literal, and what a worksheet holds for the number).  Kinds     *)
(*     "nan", "inf" and "-inf" are the non-finite floats and kind "none"   *)
(*     is Python None (to_float's failure result).  Arithmetic on a float  *)
(*     is the IEEE-754 double arithmetic of the code: where the double     *)
(*     product v * 1000 can leave the decimal one (a decimal tie), the     *)
(*     rounding is computed on the binary value (TieRound).  The integers  *)
(*     n are below 2^31; a wider value stops the evaluation with an        *)
(*     overflow error instead of giving a result.                          *)
(*   - A worksheet cell is None, a str, an int or a float (the values      *)
(*     openpyxl gives for empty, text and numeric cells).                  *)
(*   - An Optional[int] key is [st |-> "ok", v |-> key], [st |-> "none"]   *)
(*     (Python None) or [st |-> "raise"] (the call raised an exception).   *)
(***************************************************************************)
EXTENDS Integers, Sequences, FiniteSets, TLC

VARIABLES
    raw,        \* SpecParse: the text handed to the parser
    parsed,     \* SpecParse: normalize_call_number(raw), once computed
    bkey,       \* SpecParse: the key load_data builds from boundary text raw
    pstep,      \* SpecParse: "input", "parsed", "built"
    marg,       \* SpecMatch: the arguments of one match_row call
    mres,       \* SpecMatch: its result
    mstep,      \* SpecMatch: "input", "done"
    sheet,      \* Spec: the data rows of worksheet "api" (header row applied)
    _rows,      \* Spec: the module-level cache (src/main.py:24)
    pc,         \* Spec: each worker thread's position in its handler
    ep,         \* Spec: the endpoint each worker thread is serving
    data,       \* Spec: the list load_data() returned to each thread
    builds,     \* Spec: how many times the row list was constructed
    last        \* Spec: the most recent response sent

parseVars  == <<raw, parsed, bkey, pstep>>
matchVars  == <<marg, mres, mstep>>
systemVars == <<sheet, _rows, pc, ep, data, builds, last>>
vars == <<raw, parsed, bkey, pstep, marg, mres, mstep,
          sheet, _rows, pc, ep, data, builds, last>>

----------------------------------------------------------------------------
(* Unicode character data used by str.lower() and float() *)

\* str.lower(), one character at a time: <<first, last, step, delta>> says
\* that first, first + step, ..., last each lower to themselves + delta
LowerRuns == {
    <<65,90,1,32>>, <<192,214,1,32>>, <<216,222,1,32>>, <<256,302,2,1>>,
    <<306,310,2,1>>, <<313,327,2,1>>, <<330,374,2,1>>, <<376,376,1,-121>>,
    <<377,381,2,1>>, <<385,385,1,210>>, <<386,388,2,1>>, <<390,390,1,206>>,
    <<391,391,1,1>>, <<393,394,1,205>>, <<395,395,1,1>>, <<398,398,1,79>>,
    <<399,399,1,202>>, <<400,400,1,203>>, <<401,401,1,1>>, <<403,403,1,205>>,
    <<404,404,1,207>>, <<406,406,1,211>>, <<407,407,1,209>>, <<408,408,1,1>>,
    <<412,412,1,211>>, <<413,413,1,213>>, <<415,415,1,214>>, <<416,420,2,1>>,
    <<422,422,1,218>>, <<423,423,1,1>>, <<425,425,1,218>>, <<428,428,1,1>>,
    <<430,430,1,218>>, <<431,431,1,1>>, <<433,434,1,217>>, <<435,437,2,1>>,
    <<439,439,1,219>>, <<440,440,1,1>>, <<444,444,1,1>>, <<452,452,1,2>>,
    <<453,453,1,1>>, <<455,455,1,2>>, <<456,456,1,1>>, <<458,458,1,2>>,
    <<459,475,2,1>>, <<478,494,2,1>>, <<497,497,1,2>>, <<498,500,2,1>>,
    <<502,502,1,-97>>, <<503,503,1,-56>>, <<504,542,2,1>>, <<544,544,1,-130>>,
    <<546,562,2,1>>, <<570,570,1,10795>>, <<571,571,1,1>>, <<573,573,1,-163>>,
    <<574,574,1,10792>>, <<577,577,1,1>>, <<579,579,1,-195>>,
    <<580,580,1,69>>, <<581,581,1,71>>, <<582,590,2,1>>, <<880,882,2,1>>,
    <<886,886,1,1>>, <<895,895,1,116>>, <<902,902,1,38>>, <<904,906,1,37>>,
    <<908,908,1,64>>, <<910,911,1,63>>, <<913,929,1,32>>, <<931,939,1,32>>,
    <<975,975,1,8>>, <<984,1006,2,1>>, <<1012,1012,1,-60>>, <<1015,1015,1,1>>,
    <<1017,1017,1,-7>>, <<1018,1018,1,1>>, <<1021,1023,1,-130>>,
    <<1024,1039,1,80>>, <<1040,1071,1,32>>, <<1120,1152,2,1>>,
    <<1162,1214,2,1>>, <<1216,1216,1,15>>, <<1217,1229,2,1>>,
    <<1232,1326,2,1>>, <<1329,1366,1,48>>, <<4256,4293,1,7264>>,
    <<4295,4295,1,7264>>, <<4301,4301,1,7264>>, <<5024,5103,1,38864>>,
    <<5104,5109,1,8>>, <<7312,7354,1,-3008>>, <<7357,7359,1,-3008>>,
    <<7680,7828,2,1>>, <<7838,7838,1,-7615>>, <<7840,7934,2,1>>,
    <<7944,7951,1,-8>>, <<7960,7965,1,-8>>, <<7976,7983,1,-8>>,
    <<7992,7999,1,-8>>, <<8008,8013,1,-8>>, <<8025,8031,2,-8>>,
    <<8040,8047,1,-8>>, <<8072,8079,1,-8>>, <<8088,8095,1,-8>>,
    <<8104,8111,1,-8>>, <<8120,8121,1,-8>>, <<8122,8123,1,-74>>,
    <<8124,8124,1,-9>>, <<8136,8139,1,-86>>, <<8140,8140,1,-9>>,
    <<8152,8153,1,-8>>, <<8154,8155,1,-100>>, <<8168,8169,1,-8>>,
    <<8170,8171,1,-112>>, <<8172,8172,1,-7>>, <<8184,8185,1,-128>>,
    <<8186,8187,1,-126>>, <<8188,8188,1,-9>>, <<8486,8486,1,-7517>>,
    <<8490,8490,1,-8383>>, <<8491,8491,1,-8262>>, <<8498,8498,1,28>>,
    <<8544,8559,1,16>>, <<8579,8579,1,1>>, <<9398,9423,1,26>>,
    <<11264,11311,1,48>>, <<11360,11360,1,1>>, <<11362,11362,1,-10743>>,
    <<11363,11363,1,-3814>>, <<11364,11364,1,-10727>>, <<11367,11371,2,1>>,
    <<11373,11373,1,-10780>>, <<11374,11374,1,-10749>>,
    <<11375,11375,1,-10783>>, <<11376,11376,1,-10782>>, <<11378,11378,1,1>>,
    <<11381,11381,1,1>>, <<11390,11391,1,-10815>>, <<11392,11490,2,1>>,
    <<11499,11501,2,1>>, <<11506,11506,1,1>>, <<42560,42604,2,1>>,
    <<42624,42650,2,1>>, <<42786,42798,2,1>>, <<42802,42862,2,1>>,
    <<42873,42875,2,1>>, <<42877,42877,1,-35332>>, <<42878,42886,2,1>>,
    <<42891,42891,1,1>>, <<42893,42893,1,-42280>>, <<42896,42898,2,1>>,
    <<42902,42920,2,1>>, <<42922,42922,1,-42308>>, <<42923,42923,1,-42319>>,
    <<42924,42924,1,-42315>>, <<42925,42925,1,-42305>>,
    <<42926,42926,1,-42308>>, <<42928,42928,1,-42258>>,
    <<42929,42929,1,-42282>>, <<42930,42930,1,-42261>>, <<42931,42931,1,928>>,
    <<42932,42946,2,1>>, <<42948,42948,1,-48>>, <<42949,42949,1,-42307>>,
    <<42950,42950,1,-35384>>, <<42951,42953,2,1>>, <<42960,42960,1,1>>,
    <<42966,42968,2,1>>, <<42997,42997,1,1>>, <<65313,65338,1,32>>,
    <<66560,66599,1,40>>, <<66736,66771,1,40>>, <<66928,66938,1,39>>,
    <<66940,66954,1,39>>, <<66956,66962,1,39>>, <<66964,66965,1,39>>,
    <<68736,68786,1,64>>, <<71840,71871,1,32>>, <<93760,93791,1,32>>,
    <<125184,125217,1,34>> }

\* Cased characters that are not case-ignorable, as <<first, last>> ranges
CasedRanges == {
    <<65,90>>, <<97,122>>, <<170,170>>, <<181,181>>, <<186,186>>, <<192,214>>,
    <<216,246>>, <<248,442>>, <<444,447>>, <<452,659>>, <<661,687>>,
    <<880,883>>, <<886,887>>, <<891,893>>, <<895,895>>, <<902,902>>,
    <<904,906>>, <<908,908>>, <<910,929>>, <<931,1013>>, <<1015,1153>>,
    <<1162,1327>>, <<1329,1366>>, <<1376,1416>>, <<4256,4293>>, <<4295,4295>>,
    <<4301,4301>>, <<4304,4346>>, <<4349,4351>>, <<5024,5109>>, <<5112,5117>>,
    <<7296,7304>>, <<7312,7354>>, <<7357,7359>>, <<7424,7467>>, <<7531,7543>>,
    <<7545,7578>>, <<7680,7957>>, <<7960,7965>>, <<7968,8005>>, <<8008,8013>>,
    <<8016,8023>>, <<8025,8025>>, <<8027,8027>>, <<8029,8029>>, <<8031,8061>>,
    <<8064,8116>>, <<8118,8124>>, <<8126,8126>>, <<8130,8132>>, <<8134,8140>>,
    <<8144,8147>>, <<8150,8155>>, <<8160,8172>>, <<8178,8180>>, <<8182,8188>>,
    <<8450,8450>>, <<8455,8455>>, <<8458,8467>>, <<8469,8469>>, <<8473,8477>>,
    <<8484,8484>>, <<8486,8486>>, <<8488,8488>>, <<8490,8493>>, <<8495,8500>>,
    <<8505,8505>>, <<8508,8511>>, <<8517,8521>>, <<8526,8526>>, <<8544,8575>>,
    <<8579,8580>>, <<9398,9449>>, <<11264,11387>>, <<11390,11492>>,
    <<11499,11502>>, <<11506,11507>>, <<11520,11557>>, <<11559,11559>>,
    <<11565,11565>>, <<42560,42605>>, <<42624,42651>>, <<42786,42863>>,
    <<42865,42887>>, <<42891,42894>>, <<42896,42954>>, <<42960,42961>>,
    <<42963,42963>>, <<42965,42969>>, <<42997,42998>>, <<43002,43002>>,
    <<43824,43866>>, <<43872,43880>>, <<43888,43967>>, <<64256,64262>>,
    <<64275,64279>>, <<65313,65338>>, <<65345,65370>>, <<66560,66639>>,
    <<66736,66771>>, <<66776,66811>>, <<66928,66938>>, <<66940,66954>>,
    <<66956,66962>>, <<66964,66965>>, <<66967,66977>>, <<66979,66993>>,
    <<66995,67001>>, <<67003,67004>>, <<68736,68786>>, <<68800,68850>>,
    <<71840,71903>>, <<93760,93823>>, <<119808,119892>>, <<119894,119964>>,
    <<119966,119967>>, <<119970,119970>>, <<119973,119974>>,
    <<119977,119980>>, <<119982,119993>>, <<119995,119995>>,
    <<119997,120003>>, <<120005,120069>>, <<120071,120074>>,
    <<120077,120084>>, <<120086,120092>>, <<120094,120121>>,
    <<120123,120126>>, <<120128,120132>>, <<120134,120134>>,
    <<120138,120144>>, <<120146,120485>>, <<120488,120512>>,
    <<120514,120538>>, <<120540,120570>>, <<120572,120596>>,
    <<120598,120628>>, <<120630,120654>>, <<120656,120686>>,
    <<120688,120712>>, <<120714,120744>>, <<120746,120770>>,
    <<120772,120779>>, <<122624,122633>>, <<122635,122654>>,
    <<125184,125251>>, <<127280,127305>>, <<127312,127337>>, <<127344,127369>> }

\* Case-ignorable characters, as <<first, last>> ranges
CaseIgnorableRanges == {
    <<39,39>>, <<46,46>>, <<58,58>>, <<94,94>>, <<96,96>>, <<168,168>>,
    <<173,173>>, <<175,175>>, <<180,180>>, <<183,184>>, <<688,879>>,
    <<884,885>>, <<890,890>>, <<900,901>>, <<903,903>>, <<1155,1161>>,
    <<1369,1369>>, <<1375,1375>>, <<1425,1469>>, <<1471,1471>>, <<1473,1474>>,
    <<1476,1477>>, <<1479,1479>>, <<1524,1524>>, <<1536,1541>>, <<1552,1562>>,
    <<1564,1564>>, <<1600,1600>>, <<1611,1631>>, <<1648,1648>>, <<1750,1757>>,
    <<1759,1768>>, <<1770,1773>>, <<1807,1807>>, <<1809,1809>>, <<1840,1866>>,
    <<1958,1968>>, <<2027,2037>>, <<2042,2042>>, <<2045,2045>>, <<2070,2093>>,
    <<2137,2139>>, <<2184,2184>>, <<2192,2193>>, <<2200,2207>>, <<2249,2306>>,
    <<2362,2362>>, <<2364,2364>>, <<2369,2376>>, <<2381,2381>>, <<2385,2391>>,
    <<2402,2403>>, <<2417,2417>>, <<2433,2433>>, <<2492,2492>>, <<2497,2500>>,
    <<2509,2509>>, <<2530,2531>>, <<2558,2558>>, <<2561,2562>>, <<2620,2620>>,
    <<2625,2626>>, <<2631,2632>>, <<2635,2637>>, <<2641,2641>>, <<2672,2673>>,
    <<2677,2677>>, <<2689,2690>>, <<2748,2748>>, <<2753,2757>>, <<2759,2760>>,
    <<2765,2765>>, <<2786,2787>>, <<2810,2815>>, <<2817,2817>>, <<2876,2876>>,
    <<2879,2879>>, <<2881,2884>>, <<2893,2893>>, <<2901,2902>>, <<2914,2915>>,
    <<2946,2946>>, <<3008,3008>>, <<3021,3021>>, <<3072,3072>>, <<3076,3076>>,
    <<3132,3132>>, <<3134,3136>>, <<3142,3144>>, <<3146,3149>>, <<3157,3158>>,
    <<3170,3171>>, <<3201,3201>>, <<3260,3260>>, <<3263,3263>>, <<3270,3270>>,
    <<3276,3277>>, <<3298,3299>>, <<3328,3329>>, <<3387,3388>>, <<3393,3396>>,
    <<3405,3405>>, <<3426,3427>>, <<3457,3457>>, <<3530,3530>>, <<3538,3540>>,
    <<3542,3542>>, <<3633,3633>>, <<3636,3642>>, <<3654,3662>>, <<3761,3761>>,
    <<3764,3772>>, <<3782,3782>>, <<3784,3789>>, <<3864,3865>>, <<3893,3893>>,
    <<3895,3895>>, <<3897,3897>>, <<3953,3966>>, <<3968,3972>>, <<3974,3975>>,
    <<3981,3991>>, <<3993,4028>>, <<4038,4038>>, <<4141,4144>>, <<4146,4151>>,
    <<4153,4154>>, <<4157,4158>>, <<4184,4185>>, <<4190,4192>>, <<4209,4212>>,
    <<4226,4226>>, <<4229,4230>>, <<4237,4237>>, <<4253,4253>>, <<4348,4348>>,
    <<4957,4959>>, <<5906,5908>>, <<5938,5939>>, <<5970,5971>>, <<6002,6003>>,
    <<6068,6069>>, <<6071,6077>>, <<6086,6086>>, <<6089,6099>>, <<6103,6103>>,
    <<6109,6109>>, <<6155,6159>>, <<6211,6211>>, <<6277,6278>>, <<6313,6313>>,
    <<6432,6434>>, <<6439,6440>>, <<6450,6450>>, <<6457,6459>>, <<6679,6680>>,
    <<6683,6683>>, <<6742,6742>>, <<6744,6750>>, <<6752,6752>>, <<6754,6754>>,
    <<6757,6764>>, <<6771,6780>>, <<6783,6783>>, <<6823,6823>>, <<6832,6862>>,
    <<6912,6915>>, <<6964,6964>>, <<6966,6970>>, <<6972,6972>>, <<6978,6978>>,
    <<7019,7027>>, <<7040,7041>>, <<7074,7077>>, <<7080,7081>>, <<7083,7085>>,
    <<7142,7142>>, <<7144,7145>>, <<7149,7149>>, <<7151,7153>>, <<7212,7219>>,
    <<7222,7223>>, <<7288,7293>>, <<7376,7378>>, <<7380,7392>>, <<7394,7400>>,
    <<7405,7405>>, <<7412,7412>>, <<7416,7417>>, <<7468,7530>>, <<7544,7544>>,
    <<7579,7679>>, <<8125,8125>>, <<8127,8129>>, <<8141,8143>>, <<8157,8159>>,
    <<8173,8175>>, <<8189,8190>>, <<8203,8207>>, <<8216,8217>>, <<8228,8228>>,
    <<8231,8231>>, <<8234,8238>>, <<8288,8292>>, <<8294,8303>>, <<8305,8305>>,
    <<8319,8319>>, <<8336,8348>>, <<8400,8432>>, <<11388,11389>>,
    <<11503,11505>>, <<11631,11631>>, <<11647,11647>>, <<11744,11775>>,
    <<11823,11823>>, <<12293,12293>>, <<12330,12333>>, <<12337,12341>>,
    <<12347,12347>>, <<12441,12446>>, <<12540,12542>>, <<40981,40981>>,
    <<42232,42237>>, <<42508,42508>>, <<42607,42610>>, <<42612,42621>>,
    <<42623,42623>>, <<42652,42655>>, <<42736,42737>>, <<42752,42785>>,
    <<42864,42864>>, <<42888,42890>>, <<42994,42996>>, <<43000,43001>>,
    <<43010,43010>>, <<43014,43014>>, <<43019,43019>>, <<43045,43046>>,
    <<43052,43052>>, <<43204,43205>>, <<43232,43249>>, <<43263,43263>>,
    <<43302,43309>>, <<43335,43345>>, <<43392,43394>>, <<43443,43443>>,
    <<43446,43449>>, <<43452,43453>>, <<43471,43471>>, <<43493,43494>>,
    <<43561,43566>>, <<43569,43570>>, <<43573,43574>>, <<43587,43587>>,
    <<43596,43596>>, <<43632,43632>>, <<43644,43644>>, <<43696,43696>>,
    <<43698,43700>>, <<43703,43704>>, <<43710,43711>>, <<43713,43713>>,
    <<43741,43741>>, <<43756,43757>>, <<43763,43764>>, <<43766,43766>>,
    <<43867,43871>>, <<43881,43883>>, <<44005,44005>>, <<44008,44008>>,
    <<44013,44013>>, <<64286,64286>>, <<64434,64450>>, <<65024,65039>>,
    <<65043,65043>>, <<65056,65071>>, <<65106,65106>>, <<65109,65109>>,
    <<65279,65279>>, <<65287,65287>>, <<65294,65294>>, <<65306,65306>>,
    <<65342,65342>>, <<65344,65344>>, <<65392,65392>>, <<65438,65439>>,
    <<65507,65507>>, <<65529,65531>>, <<66045,66045>>, <<66272,66272>>,
    <<66422,66426>>, <<67456,67461>>, <<67463,67504>>, <<67506,67514>>,
    <<68097,68099>>, <<68101,68102>>, <<68108,68111>>, <<68152,68154>>,
    <<68159,68159>>, <<68325,68326>>, <<68900,68903>>, <<69291,69292>>,
    <<69446,69456>>, <<69506,69509>>, <<69633,69633>>, <<69688,69702>>,
    <<69744,69744>>, <<69747,69748>>, <<69759,69761>>, <<69811,69814>>,
    <<69817,69818>>, <<69821,69821>>, <<69826,69826>>, <<69837,69837>>,
    <<69888,69890>>, <<69927,69931>>, <<69933,69940>>, <<70003,70003>>,
    <<70016,70017>>, <<70070,70078>>, <<70089,70092>>, <<70095,70095>>,
    <<70191,70193>>, <<70196,70196>>, <<70198,70199>>, <<70206,70206>>,
    <<70367,70367>>, <<70371,70378>>, <<70400,70401>>, <<70459,70460>>,
    <<70464,70464>>, <<70502,70508>>, <<70512,70516>>, <<70712,70719>>,
    <<70722,70724>>, <<70726,70726>>, <<70750,70750>>, <<70835,70840>>,
    <<70842,70842>>, <<70847,70848>>, <<70850,70851>>, <<71090,71093>>,
    <<71100,71101>>, <<71103,71104>>, <<71132,71133>>, <<71219,71226>>,
    <<71229,71229>>, <<71231,71232>>, <<71339,71339>>, <<71341,71341>>,
    <<71344,71349>>, <<71351,71351>>, <<71453,71455>>, <<71458,71461>>,
    <<71463,71467>>, <<71727,71735>>, <<71737,71738>>, <<71995,71996>>,
    <<71998,71998>>, <<72003,72003>>, <<72148,72151>>, <<72154,72155>>,
    <<72160,72160>>, <<72193,72202>>, <<72243,72248>>, <<72251,72254>>,
    <<72263,72263>>, <<72273,72278>>, <<72281,72283>>, <<72330,72342>>,
    <<72344,72345>>, <<72752,72758>>, <<72760,72765>>, <<72767,72767>>,
    <<72850,72871>>, <<72874,72880>>, <<72882,72883>>, <<72885,72886>>,
    <<73009,73014>>, <<73018,73018>>, <<73020,73021>>, <<73023,73029>>,
    <<73031,73031>>, <<73104,73105>>, <<73109,73109>>, <<73111,73111>>,
    <<73459,73460>>, <<78896,78904>>, <<92912,92916>>, <<92976,92982>>,
    <<92992,92995>>, <<94031,94031>>, <<94095,94111>>, <<94176,94177>>,
    <<94179,94180>>, <<110576,110579>>, <<110581,110587>>, <<110589,110590>>,
    <<113821,113822>>, <<113824,113827>>, <<118528,118573>>,
    <<118576,118598>>, <<119143,119145>>, <<119155,119170>>,
    <<119173,119179>>, <<119210,119213>>, <<119362,119364>>,
    <<121344,121398>>, <<121403,121452>>, <<121461,121461>>,
    <<121476,121476>>, <<121499,121503>>, <<121505,121519>>,
    <<122880,122886>>, <<122888,122904>>, <<122907,122913>>,
    <<122915,122916>>, <<122918,122922>>, <<123184,123197>>,
    <<123566,123566>>, <<123628,123631>>, <<125136,125142>>,
    <<125252,125259>>, <<127995,127999>>, <<917505,917505>>,
    <<917536,917631>>, <<917760,917999>> }

\* the digit zero of every run of ten decimal digits (category Nd)
DecimalZeros == {
    48, 1632, 1776, 1984, 2406, 2534, 2662, 2790, 2918, 3046, 3174, 3302,
    3430, 3558, 3664, 3792, 3872, 4160, 4240, 6112, 6160, 6470, 6608, 6784,
    6800, 6992, 7088, 7232, 7248, 42528, 43216, 43264, 43472, 43504, 43600,
    44016, 65296, 66720, 68912, 69734, 69872, 69942, 70096, 70384, 70736,
    70864, 71248, 71360, 71472, 71904, 72016, 72784, 73040, 73120, 92768,
    92864, 93008, 120782, 120792, 120802, 120812, 120822, 123200, 123632,
    125264, 130032 }

\* the decimal digits of 2^1024 - 2^970, the least value float() reads as inf
OverflowDigits == <<
    1, 7, 9, 7, 6, 9, 3, 1, 3, 4, 8, 6, 2, 3, 1, 5, 8, 0, 7, 9, 3, 7, 2, 8, 9,
    7, 1, 4, 0, 5, 3, 0, 3, 4, 1, 5, 0, 7, 9, 9, 3, 4, 1, 3, 2, 7, 1, 0, 0, 3,
    7, 8, 2, 6, 9, 3, 6, 1, 7, 3, 7, 7, 8, 9, 8, 0, 4, 4, 4, 9, 6, 8, 2, 9, 2,
    7, 6, 4, 7, 5, 0, 9, 4, 6, 6, 4, 9, 0, 1, 7, 9, 7, 7, 5, 8, 7, 2, 0, 7, 0,
    9, 6, 3, 3, 0, 2, 8, 6, 4, 1, 6, 6, 9, 2, 8, 8, 7, 9, 1, 0, 9, 4, 6, 5, 5,
    5, 5, 4, 7, 8, 5, 1, 9, 4, 0, 4, 0, 2, 6, 3, 0, 6, 5, 7, 4, 8, 8, 6, 7, 1,
    5, 0, 5, 8, 2, 0, 6, 8, 1, 9, 0, 8, 9, 0, 2, 0, 0, 0, 7, 0, 8, 3, 8, 3, 6,
    7, 6, 2, 7, 3, 8, 5, 4, 8, 4, 5, 8, 1, 7, 7, 1, 1, 5, 3, 1, 7, 6, 4, 4, 7,
    5, 7, 3, 0, 2, 7, 0, 0, 6, 9, 8, 5, 5, 5, 7, 1, 3, 6, 6, 9, 5, 9, 6, 2, 2,
    8, 4, 2, 9, 1, 4, 8, 1, 9, 8, 6, 0, 8, 3, 4, 9, 3, 6, 4, 7, 5, 2, 9, 2, 7,
    1, 9, 0, 7, 4, 1, 6, 8, 4, 4, 4, 3, 6, 5, 5, 1, 0, 7, 0, 4, 3, 4, 2, 7, 1,
    1, 5, 5, 9, 6, 9, 9, 5, 0, 8, 0, 9, 3, 0, 4, 2, 8, 8, 0, 1, 7, 7, 9, 0, 4,
    1, 7, 4, 4, 9, 7, 7, 9, 2 >>

\* the significant digits of 2^-1075 = 0.<323 zeros>2470...; float() reads
\* a value up to it as 0.0
UnderflowDigits == <<
    2, 4, 7, 0, 3, 2, 8, 2, 2, 9, 2, 0, 6, 2, 3, 2, 7, 2, 0, 8, 8, 2, 8, 4, 3,
    9, 6, 4, 3, 4, 1, 1, 0, 6, 8, 6, 1, 8, 2, 5, 2, 9, 9, 0, 1, 3, 0, 7, 1, 6,
    2, 3, 8, 2, 2, 1, 2, 7, 9, 2, 8, 4, 1, 2, 5, 0, 3, 3, 7, 7, 5, 3, 6, 3, 5,
    1, 0, 4, 3, 7, 5, 9, 3, 2, 6, 4, 9, 9, 1, 8, 1, 8, 0, 8, 1, 7, 9, 9, 6, 1,
    8, 9, 8, 9, 8, 2, 8, 2, 3, 4, 7, 7, 2, 2, 8, 5, 8, 8, 6, 5, 4, 6, 3, 3, 2,
    8, 3, 5, 5, 1, 7, 7, 9, 6, 9, 8, 9, 8, 1, 9, 9, 3, 8, 7, 3, 9, 8, 0, 0, 5,
    3, 9, 0, 9, 3, 9, 0, 6, 3, 1, 5, 0, 3, 5, 6, 5, 9, 5, 1, 5, 5, 7, 0, 2, 2,
    6, 3, 9, 2, 2, 9, 0, 8, 5, 8, 3, 9, 2, 4, 4, 9, 1, 0, 5, 1, 8, 4, 4, 3, 5,
    9, 3, 1, 8, 0, 2, 8, 4, 9, 9, 3, 6, 5, 3, 6, 1, 5, 2, 5, 0, 0, 3, 1, 9, 3,
    7, 0, 4, 5, 7, 6, 7, 8, 2, 4, 9, 2, 1, 9, 3, 6, 5, 6, 2, 3, 6, 6, 9, 8, 6,
    3, 6, 5, 8, 4, 8, 0, 7, 5, 7, 0, 0, 1, 5, 8, 5, 7, 6, 9, 2, 6, 9, 9, 0, 3,
    7, 0, 6, 3, 1, 1, 9, 2, 8, 2, 7, 9, 5, 5, 8, 5, 5, 1, 3, 3, 2, 9, 2, 7, 8,
    3, 4, 3, 3, 8, 4, 0, 9, 3, 5, 1, 9, 7, 8, 0, 1, 5, 5, 3, 1, 2, 4, 6, 5, 9,
    7, 2, 6, 3, 5, 7, 9, 5, 7, 4, 6, 2, 2, 7, 6, 6, 4, 6, 5, 2, 7, 2, 8, 2, 7,
    2, 2, 0, 0, 5, 6, 3, 7, 4, 0, 0, 6, 4, 8, 5, 4, 9, 9, 9, 7, 7, 0, 9, 6, 5,
    9, 9, 4, 7, 0, 4, 5, 4, 0, 2, 0, 8, 2, 8, 1, 6, 6, 2, 2, 6, 2, 3, 7, 8, 5,
    7, 3, 9, 3, 4, 5, 0, 7, 3, 6, 3, 3, 9, 0, 0, 7, 9, 6, 7, 7, 6, 1, 9, 3, 0,
    5, 7, 7, 5, 0, 6, 7, 4, 0, 1, 7, 6, 3, 2, 4, 6, 7, 3, 6, 0, 0, 9, 6, 8, 9,
    5, 1, 3, 4, 0, 5, 3, 5, 5, 3, 7, 4, 5, 8, 5, 1, 6, 6, 6, 1, 1, 3, 4, 2, 2,
    3, 7, 6, 6, 6, 7, 8, 6, 0, 4, 1, 6, 2, 1, 5, 9, 6, 8, 0, 4, 6, 1, 9, 1, 4,
    4, 6, 7, 2, 9, 1, 8, 4, 0, 3, 0, 0, 5, 3, 0, 0, 5, 7, 5, 3, 0, 8, 4, 9, 0,
    4, 8, 7, 6, 5, 3, 9, 1, 7, 1, 1, 3, 8, 6, 5, 9, 1, 6, 4, 6, 2, 3, 9, 5, 2,
    4, 9, 1, 2, 6, 2, 3, 6, 5, 3, 8, 8, 1, 8, 7, 9, 6, 3, 6, 2, 3, 9, 3, 7, 3,
    2, 8, 0, 4, 2, 3, 8, 9, 1, 0, 1, 8, 6, 7, 2, 3, 4, 8, 4, 9, 7, 6, 6, 8, 2,
    3, 5, 0, 8, 9, 8, 6, 3, 3, 8, 8, 5, 8, 7, 9, 2, 5, 6, 2, 8, 3, 0, 2, 7, 5,
    5, 9, 9, 5, 6, 5, 7, 5, 2, 4, 4, 5, 5, 5, 0, 7, 2, 5, 5, 1, 8, 9, 3, 1, 3,
    6, 9, 0, 8, 3, 6, 2, 5, 4, 7, 7, 9, 1, 8, 6, 9, 4, 8, 6, 6, 7, 9, 9, 4, 9,
    6, 8, 3, 2, 4, 0, 4, 9, 7, 0, 5, 8, 2, 1, 0, 2, 8, 5, 1, 3, 1, 8, 5, 4, 5,
    1, 3, 9, 6, 2, 1, 3, 8, 3, 7, 7, 2, 2, 8, 2, 6, 1, 4, 5, 4, 3, 7, 6, 9, 3,
    4, 1, 2, 5, 3, 2, 0, 9, 8, 5, 9, 1, 3, 2, 7, 6, 6, 7, 2, 3, 6, 3, 2, 8, 1,
    2, 5 >>

----------------------------------------------------------------------------
(* Characters and strings *)

IsDigit(c)   == c \in 48..57                  \* [0-9]
IsNumChar(c) == IsDigit(c) \/ c = 46          \* [0-9.]
IsThai(c)    == c \in 3585..3673              \* [ก-๙]

\* str.isspace(): the characters str.strip() removes and \s matches in a
\* str pattern
IsSpace(c) ==
    \/ c \in 9..13 \/ c \in 28..32 \/ c \in {133, 160, 5760}
    \/ c \in 8192..8202 \/ c \in {8232, 8233, 8239, 8287, 12288}

SetMin(S) == CHOOSE a \in S : \A b \in S : a <= b
SetMax(S) == CHOOSE a \in S : \A b \in S : b <= a

\* str.strip()
RECURSIVE lstrip(_)
lstrip(s) == IF s # <<>> /\ IsSpace(Head(s)) THEN lstrip(Tail(s)) ELSE s
RECURSIVE rstrip(_)
rstrip(s) ==
    IF s # <<>> /\ IsSpace(s[Len(s)]) THEN rstrip(SubSeq(s, 1, Len(s) - 1)) ELSE s
strip(s) == rstrip(lstrip(s))

\* .replace("–", "-").replace("—", "-")
replace_dashes(s) == [i \in DOMAIN s |-> IF s[i] \in {8211, 8212} THEN 45 ELSE s[i]]

InRun(r, c)    == r[1] <= c /\ c <= r[2] /\ (c - r[1]) % r[3] = 0
InRanges(R, c) == \E r \in R : r[1] <= c /\ c <= r[2]

\* the lowercase of one character, out of context
lower_by(c, runs) == IF runs = {} THEN c ELSE c + (CHOOSE r \in runs : TRUE)[4]
lower_char(c) == lower_by(c, {r \in LowerRuns : InRun(r, c)})

\* str.lower() on "Σ" (931): "ς" when a cased letter comes before it and none
\* after it, case-ignorable characters skipped on both sides; else "σ"
\* (solid: the indices of the characters that are not case-ignorable; cased:
\* the indices of the cased letters)
sigma_is_final(i, solid, cased) ==
    /\ \E j \in solid : j < i /\ j \in cased /\ \A k \in solid : k < i => k <= j
    /\ ~\E j \in solid : j > i /\ j \in cased /\ \A k \in solid : k > i => k >= j
final_sigma(s, i) ==
    sigma_is_final(i, {j \in DOMAIN s : ~InRanges(CaseIgnorableRanges, s[j])},
                      {j \in DOMAIN s : InRanges(CasedRanges, s[j])})

RECURSIVE lower_from(_, _)
lower_from(s, i) ==
    IF i > Len(s) THEN <<>>
    ELSE (IF s[i] = 304 THEN <<105, 775>>                 \* "İ" -> "i̇"
          ELSE IF s[i] = 931 THEN <<IF final_sigma(s, i) THEN 962 ELSE 963>>
          ELSE <<lower_char(s[i])>>) \o lower_from(s, i + 1)

\* str.lower()
lower(s) == lower_from(s, 1)

\* a < b for Python strings: lexicographic on code points
RECURSIVE StrLess(_, _)
StrLess(a, b) ==
    IF b = <<>> THEN FALSE
    ELSE IF a = <<>> THEN TRUE
    ELSE IF Head(a) # Head(b) THEN Head(a) < Head(b)
    ELSE StrLess(Tail(a), Tail(b))

\* x in y for Python strings
Contains(y, x) ==
    \E i \in 0..(Len(y) - Len(x)) : SubSeq(y, i + 1, i + Len(x)) = x

\* the length of the run of digits of s that starts at index i
RECURSIVE DigitRun(_, _)
DigitRun(s, i) == IF i <= Len(s) /\ IsDigit(s[i]) THEN 1 + DigitRun(s, i + 1) ELSE 0

\* the length of the run of Thai characters of s that starts at index i
RECURSIVE ThaiRun(_, _)
ThaiRun(s, i) == IF i <= Len(s) /\ IsThai(s[i]) THEN 1 + ThaiRun(s, i + 1) ELSE 0

Min(a, b) == IF a < b THEN a ELSE b

----------------------------------------------------------------------------
(* Numbers *)

RECURSIVE Pow10(_)
Pow10(k) == IF k = 0 THEN 1 ELSE 10 * Pow10(k - 1)

RECURSIVE Pow2(_)
Pow2(k) == IF k = 0 THEN 1 ELSE 2 * Pow2(k - 1)

\* 2^t mod 125
RECURSIVE Pow2Mod125(_)
Pow2Mod125(t) == IF t = 0 THEN 1 ELSE (2 * Pow2Mod125(t - 1)) % 125

\* int(round(a / b)) for b > 0: Python 3 rounds half to even (\div floors)
RoundHalfEven(a, b) ==
    LET q == a \div b
        r == a % b
    IN  IF 2 * r < b THEN q
        ELSE IF 2 * r > b THEN q + 1
        ELSE IF q % 2 = 0 THEN q ELSE q + 1

\* int(digits) for a string of ASCII digits
RECURSIVE DigitsValue(_)
DigitsValue(s) ==
    IF s = <<>> THEN 0
    ELSE 10 * DigitsValue(SubSeq(s, 1, Len(s) - 1)) + (s[Len(s)] - 48)

\* str(n) for an int n
RECURSIVE NatStr(_)
NatStr(n) == IF n < 10 THEN <<48 + n>> ELSE NatStr(n \div 10) \o <<48 + (n % 10)>>
IntStr(n) == IF n < 0 THEN <<45>> \o NatStr(0 - n) ELSE NatStr(n)

Fin(n, k) == [kind |-> "fin", n |-> n, k |-> k]
NaN       == [kind |-> "nan", n |-> 0, k |-> 0]
Inf       == [kind |-> "inf", n |-> 0, k |-> 0]
NegInf    == [kind |-> "-inf", n |-> 0, k |-> 0]
NoFloat   == [kind |-> "none", n |-> 0, k |-> 0]

\* Optional[int]: Some(v), None, or the call raised
Some(v)  == [st |-> "ok", v |-> v]
None     == [st |-> "none", v |-> 0]
Raised   == [st |-> "raise", v |-> 0]

\* worksheet cells and Python values
PyNone      == [ty |-> "none"]
PyInt(i)    == [ty |-> "int", i |-> i]
PyFloat(f)  == [ty |-> "float", f |-> f]
PyStr(s)    == [ty |-> "str", s |-> s]

\* float() first maps every non-ASCII space to " ", every non-ASCII decimal
\* digit to its ASCII digit and every other non-ASCII character to "?"
decimal_of(c) ==
    LET Z == {z \in DecimalZeros : z <= c /\ c <= z + 9}
    IN  IF Z = {} THEN 0 - 1 ELSE c - (CHOOSE z \in Z : TRUE)
to_ascii(s) ==
    [i \in DOMAIN s |->
        IF s[i] < 128 THEN s[i]
        ELSE IF IsSpace(s[i]) THEN 32
        ELSE IF decimal_of(s[i]) >= 0 THEN 48 + decimal_of(s[i])
        ELSE 63]

\* ... then strips the ASCII spaces \t \n \v \f \r and " " (not \x1c-\x1f)
AsciiSpace(c) == c \in 9..13 \/ c = 32
ascii_strip(s) ==
    LET keep == {i \in DOMAIN s : ~AsciiSpace(s[i])}
    IN  IF keep = {} THEN <<>> ELSE SubSeq(s, SetMin(keep), SetMax(keep))

\* ... admits "_" only between two digits
underscores_ok(s) ==
    \A i \in DOMAIN s :
        s[i] = 95 => (i > 1 /\ i < Len(s) /\ IsDigit(s[i - 1]) /\ IsDigit(s[i + 1]))
NotUnderscore(c) == c # 95

ascii_lower(s) == [i \in DOMAIN s |-> IF s[i] \in 65..90 THEN s[i] + 32 ELSE s[i]]

\* s cut or padded with zeros to n digit values
PadDigits(s, n) == [i \in 1..n |-> IF i <= Len(s) THEN s[i] ELSE 0]

\* a < b for two digit strings of one length
DigitsLess(a, b) ==
    \E i \in DOMAIN a : a[i] < b[i] /\ \A j \in 1..(i - 1) : a[j] = b[j]

\* the value 0.d1d2... * 10^e10 (d1 # 0) is read as inf: it is at least
\* 2^1024 - 2^970, half way from the largest double to 2^1024
reads_as_inf(d, e10) ==
    \/ e10 > 309
    \/ e10 = 309 /\ ~DigitsLess(PadDigits(d, 309), OverflowDigits)

\* the value 0.d1d2... * 10^e10 is read as 0.0: it is at most 2^-1075, half
\* the least positive double
digits_at_most(d, u) ==
    LET w == IF Len(d) > Len(u) THEN Len(d) ELSE Len(u)
    IN  ~DigitsLess(PadDigits(u, w), PadDigits(d, w))
reads_as_zero(d, e10) ==
    \/ e10 < 0 - 323
    \/ e10 = 0 - 323 /\ digits_at_most(d, UnderflowDigits)

\* the index of the exponent letter of b, or Len(b) + 1
exponent_at(b) ==
    IF \E i \in DOMAIN b : b[i] \in {69, 101}
    THEN CHOOSE i \in DOMAIN b : b[i] \in {69, 101} /\ \A j \in 1..(i - 1) : b[j] \notin {69, 101}
    ELSE Len(b) + 1

\* s without a leading sign
unsigned(s) == IF s # <<>> /\ Head(s) \in {43, 45} THEN Tail(s) ELSE s

\* s from its first character that is not "0"
without_zeros(s) ==
    LET nz == {i \in DOMAIN s : s[i] # 48}
    IN  IF nz = {} THEN <<>> ELSE SubSeq(s, SetMin(nz), Len(s))

\* s up to its last character that is not "0"
without_trailing_zeros(s) ==
    LET nz == {i \in DOMAIN s : s[i] # 48}
    IN  IF nz = {} THEN <<>> ELSE SubSeq(s, 1, SetMax(nz))

\* how many digits follow the point of a mantissa
fraction_digits(mant) ==
    Cardinality({i \in DOMAIN mant : \E j \in 1..(i - 1) : mant[j] = 46})

\* digits with at most one point and at least one digit
mantissa_ok(mant) ==
    /\ \A i \in DOMAIN mant : IsNumChar(mant[i])
    /\ Cardinality({i \in DOMAIN mant : mant[i] = 46}) <= 1
    /\ \E i \in DOMAIN mant : IsDigit(mant[i])

\* nothing, or the exponent letter, an optional sign and at least one digit
exponent_ok(ex) ==
    ex = <<>> \/ (unsigned(Tail(ex)) # <<>> /\ \A i \in DOMAIN unsigned(Tail(ex)) : IsDigit(unsigned(Tail(ex))[i]))

\* the value of the exponent part ex ("" or e[+-]digits), cut at 10^6
exponent_value(ex) ==
    LET xsig == without_zeros(unsigned(Tail(ex)))
    IN  IF ex = <<>> THEN 0
        ELSE (IF Tail(ex) # <<>> /\ Head(Tail(ex)) = 45 THEN 0 - 1 ELSE 1)
             * (IF Len(xsig) > 6 THEN 1000000 ELSE DigitsValue(xsig))

\* the float 0.sig * 10^e10, sig digits from a nonzero one to a nonzero one
float_of_scaled(neg, sig, e10) ==
    IF sig = <<>> THEN Fin(0, 0)
    ELSE IF reads_as_inf([i \in DOMAIN sig |-> sig[i] - 48], e10)
    THEN (IF neg THEN NegInf ELSE Inf)
    ELSE IF reads_as_zero([i \in DOMAIN sig |-> sig[i] - 48], e10) THEN Fin(0, 0)
    ELSE IF Len(sig) <= e10
    THEN Fin((IF neg THEN 0 - 1 ELSE 1) * DigitsValue(sig) * Pow10(e10 - Len(sig)), 0)
    ELSE Fin((IF neg THEN 0 - 1 ELSE 1) * DigitsValue(sig), Len(sig) - e10)

\* the float of digits digs with k0 of them after the point, times 10^x
float_of_digits(neg, digs, k0, x) ==
    float_of_scaled(neg, without_trailing_zeros(without_zeros(digs)),
                    Len(without_zeros(digs)) + x - k0)

\* the float of mantissa mant and exponent part ex
float_of_parts(neg, mant, ex) ==
    IF ~(mantissa_ok(mant) /\ exponent_ok(ex)) THEN NoFloat
    ELSE float_of_digits(neg, SelectSeq(mant, IsDigit), fraction_digits(mant),
                         exponent_value(ex))

\* the float of the unsigned text b, cut at its exponent letter
float_of_number(neg, b, e) ==
    float_of_parts(neg, SubSeq(b, 1, e - 1), SubSeq(b, e, Len(b)))

float_of_word(neg, b, word) ==
    IF word = <<110, 97, 110>> THEN NaN                                     \* nan
    ELSE IF word \in {<<105, 110, 102>>,                                    \* inf
                      <<105, 110, 102, 105, 110, 105, 116, 121>>}           \* infinity
    THEN (IF neg THEN NegInf ELSE Inf)
    ELSE float_of_number(neg, b, exponent_at(b))

float_of_signed(u) ==
    float_of_word(u # <<>> /\ Head(u) = 45, unsigned(u), ascii_lower(unsigned(u)))

\* float(s) for a str s.  After the steps above: an optional sign, then one
\* of the words inf, infinity, nan in any case, or digits with at most one
\* point and at least one digit and an optional exponent e[+-]digits;
\* anything else raises ValueError (kind "none").
float_of_str(s0) ==
    IF ~underscores_ok(to_ascii(s0)) THEN NoFloat
    ELSE float_of_signed(SelectSeq(ascii_strip(to_ascii(s0)), NotUnderscore))

\* v < 1000 for the finite float v
LessThan1000(v) == v.k >= 10 \/ v.n \div Pow10(v.k) < 1000

\* int(round(v * 1000)) for the double v nearest to the decimal tie
\* (2m + 1) / 2000, the product being the double one.  With c = 2m + 1 and j
\* such that 125 * 2^j <= c < 250 * 2^j, v = M * 2^-(56 - j) for the 53-bit
\* M nearest to A / 125, A = c * 2^(52 - j).  In units of 2^-(53 - j) the
\* tie m + 1/2 is A and the exact product is 125 * M = A + d, |d| <= 62.
\* The doubles around A lie 64 apart if c < 128 * 2^j (and below A if c = 1),
\* else 128 apart: the product rounds to A unless they lie 64 apart and
\* |d| > 32, and then to the next double on d's side.  A product that is the
\* tie rounds half to even.
TieExp(c) ==
    CHOOSE i \in (0 - 7)..22 :
        IF i >= 0 THEN 125 * Pow2(i) <= c /\ c < 250 * Pow2(i)
        ELSE c < 125 /\ 125 <= c * Pow2(0 - i) /\ c * Pow2(0 - i) < 250
TieRoundAt(m, c, j) ==
    LET r    == ((c % 125) * Pow2Mod125(52 - j)) % 125         \* A mod 125
        d    == IF 2 * r < 125 THEN 0 - r ELSE 125 - r
        fine == \/ (IF j >= 0 THEN c < 128 * Pow2(j) ELSE c * Pow2(0 - j) < 128)
                \/ (c = 1 /\ d < 0)
    IN  IF fine /\ d < 0 - 32 THEN m
        ELSE IF fine /\ d > 32 THEN m + 1
        ELSE IF m % 2 = 0 THEN m ELSE m + 1
TieRound(m) == TieRoundAt(m, 2 * m + 1, TieExp(2 * m + 1))

\* int(round(v * 1000)) for the double v nearest to n / 10^k.  Up to three
\* fraction digits the product is the integer; off a decimal tie the double
\* product rounds as the decimal one.
RoundAbsTimes1000(a, k) ==
    IF k <= 3 THEN a * Pow10(3 - k)
    ELSE IF k - 3 >= 10 THEN 0
    ELSE IF 2 * (a % Pow10(k - 3)) = Pow10(k - 3) THEN TieRound(a \div Pow10(k - 3))
    ELSE RoundHalfEven(a, Pow10(k - 3))
RoundTimes1000(n, k) ==
    IF n < 0 THEN 0 - RoundAbsTimes1000(0 - n, k) ELSE RoundAbsTimes1000(n, k)

\* n and k without the trailing zeros of the fraction
RECURSIVE Shortest(_, _)
Shortest(n, k) == IF k > 0 /\ n % 10 = 0 THEN Shortest(n \div 10, k - 1) ELSE <<n, k>>

\* str(v) for a float v: the shortest digits that read back as v, with a
\* point, and in exponent form below 0.0001
repr_digits(digs, e10) ==
    IF e10 >= Len(digs) THEN digs \o <<46, 48>>
    ELSE IF e10 > 0
         THEN SubSeq(digs, 1, e10) \o <<46>> \o SubSeq(digs, e10 + 1, Len(digs))
    ELSE IF e10 >= 0 - 3
         THEN <<48, 46>> \o [i \in 1..(0 - e10) |-> 48] \o digs
    ELSE <<Head(digs)>> \o (IF Len(digs) > 1 THEN <<46>> \o Tail(digs) ELSE <<>>)
                       \o <<101, 45>> \o (IF 1 - e10 < 10 THEN <<48>> ELSE <<>>)
                       \o NatStr(1 - e10)
repr_shortest(sh) == repr_digits(NatStr(sh[1]), Len(NatStr(sh[1])) - sh[2])
float_repr(v) ==
    IF v.kind = "nan" THEN <<110, 97, 110>>
    ELSE IF v.kind = "inf" THEN <<105, 110, 102>>
    ELSE IF v.kind = "-inf" THEN <<45, 105, 110, 102>>
    ELSE IF v.n < 0 THEN <<45>> \o repr_shortest(Shortest(0 - v.n, v.k))
    ELSE repr_shortest(Shortest(v.n, v.k))

\* str(x) for a cell that is not None
str(x) ==
    IF x.ty = "str" THEN x.s
    ELSE IF x.ty = "int" THEN IntStr(x.i)
    ELSE float_repr(x.f)

----------------------------------------------------------------------------
(* Parsing: src/main.py lines 26-128 *)

\* to_float on a worksheet cell: None stays None, a numeric cell is its
\* value, a text cell goes through float() and a failure gives None.
float_of_num(x) == IF x.ty = "int" THEN Fin(x.i, 0) ELSE x.f
to_float(x) ==
    IF x.ty = "none" THEN NoFloat
    ELSE IF x.ty \in {"int", "float"} THEN float_of_num(x)
    ELSE float_of_str(x.s)

\* clean_suffix: the first run of one to three Thai characters, or ""
clean_suffix(x) ==
    LET starts == {i \in DOMAIN x : IsThai(x[i])}
    IN  IF starts = {} THEN <<>>
        ELSE LET i == SetMin(starts)
             IN  SubSeq(x, i, i + Min(3, ThaiRun(x, i)) - 1)

\* num_to_key, numeric branch (lines 67-71): v < 1000 is scaled by 1000,
\* anything else is taken to be a key already; round() of a non-finite
\* float raises (ValueError for nan, OverflowError for inf).
num_to_key_float(v) ==
    IF v.kind # "fin" THEN Raised
    ELSE IF LessThan1000(v)
         THEN Some(RoundTimes1000(v.n, v.k))
         ELSE Some(RoundHalfEven(v.n, Pow10(v.k)))

\* num_to_key, string branch (lines 74-82): the first match of
\* [0-9]+(?:\.[0-9]+)? read as a float, then the same threshold.
number_to(s, i, j) ==
    SubSeq(s, i, IF j <= Len(s) /\ s[j] = 46 /\ DigitRun(s, j + 1) > 0
                 THEN j + DigitRun(s, j + 1) ELSE j - 1)
number_from(s, i) == number_to(s, i, i + DigitRun(s, i))
first_number(s) == number_from(s, SetMin({i \in DOMAIN s : IsDigit(s[i])}))
num_to_key_str(x) ==
    IF ~\E i \in DOMAIN x : IsDigit(x[i]) THEN None
    ELSE num_to_key_float(float_of_str(first_number(strip(x))))

\* num_to_key(x) for x None, an int, a float or a str
num_to_key(x) ==
    IF x.ty = "none" THEN None
    ELSE IF x.ty \in {"int", "float"} THEN num_to_key_float(float_of_num(x))
    ELSE num_to_key_str(x.s)

\* THAI_SUFFIX_RE.search(s): ([0-9.]+)\s*([ก-๙]{0,3})$ .  The run of [0-9.]
\* is followed by neither a digit nor a point, so it is the last maximal
\* run of s, and what follows it must be spaces and then at most three Thai
\* characters up to the end of the string ($ also matches before one final
\* newline).
NoMatch == [matched |-> FALSE, num |-> <<>>, suffix |-> <<>>]
without_final_newline(t) ==
    IF t # <<>> /\ t[Len(t)] = 10 THEN SubSeq(t, 1, Len(t) - 1) ELSE t
suffix_groups(num, tl) ==
    IF Len(tl) <= 3 /\ \A b \in DOMAIN tl : IsThai(tl[b])
    THEN [matched |-> TRUE, num |-> num, suffix |-> tl]
    ELSE NoMatch
\* (j: the index of the last digit or point of s)
suffix_match(s, j) ==
    suffix_groups(SubSeq(s, CHOOSE a \in 1..j :
                                /\ \A b \in a..j : IsNumChar(s[b])
                                /\ (a = 1 \/ ~IsNumChar(s[a - 1])), j),
                  without_final_newline(lstrip(SubSeq(s, j + 1, Len(s)))))
THAI_SUFFIX_RE(s) ==
    IF ~\E i \in DOMAIN s : IsNumChar(s[i]) THEN NoMatch
    ELSE suffix_match(s, SetMax({i \in DOMAIN s : IsNumChar(s[i])}))

\* lines 122-128: the matched number is scaled through float()
normalize_value(num_val, suffix) ==
    IF num_val.kind = "none" THEN [key |-> None, suffix |-> suffix]
    ELSE [key |-> num_to_key(PyFloat(num_val)), suffix |-> suffix]

\* lines 110-120: digits without a point are cut after the third one
normalize_digits(digits, suffix) ==
    IF Len(digits) <= 3
    THEN [key |-> Some(DigitsValue(digits) * 1000), suffix |-> suffix]
    ELSE normalize_value(float_of_str(SubSeq(digits, 1, 3) \o <<46>>
                                         \o SubSeq(digits, 4, Len(digits))), suffix)

normalize_parts(num_part, suffix) ==
    IF \E i \in DOMAIN num_part : num_part[i] = 46
    THEN normalize_value(float_of_str(num_part), suffix)
    ELSE normalize_digits(SelectSeq(num_part, IsDigit), suffix)

normalize_match(s, m) ==
    IF ~m.matched THEN [key |-> num_to_key(PyStr(s)), suffix |-> <<>>]
    ELSE normalize_parts(strip(m.num), clean_suffix(m.suffix))

\* normalize_call_number(raw) -> (key, suffix); key "raise" when num_to_key
\* raised, which ends the call
normalize_call_number(r) ==
    IF r = <<>> THEN [key |-> None, suffix |-> <<>>]
    ELSE normalize_match(replace_dashes(strip(r)), THAI_SUFFIX_RE(replace_dashes(strip(r))))

----------------------------------------------------------------------------
(* Matching and ranking: src/main.py lines 187-236 *)

\* match_row with the start-boundary test written "<=": a query suffix equal
\* to the range's start suffix is refused
match_row_start_exclusive(d, q_key, q_suffix, strict_suffix) ==
    LET qs == clean_suffix(q_suffix)
    IN  IF q_key < d.start_key \/ q_key > d.end_key THEN FALSE
        ELSE IF ~strict_suffix THEN TRUE
        ELSE IF q_key > d.start_key /\ q_key < d.end_key THEN TRUE
        ELSE IF q_key = d.start_key /\ d.range_start_suffix_clean # <<>>
                /\ ~StrLess(d.range_start_suffix_clean, qs) THEN FALSE
        ELSE IF q_key = d.end_key /\ d.range_end_suffix_clean # <<>>
                /\ StrLess(d.range_end_suffix_clean, qs) THEN FALSE
        ELSE TRUE

\* match_row(d, q_key, q_suffix, strict_suffix)
match_row(d, q_key, q_suffix, strict_suffix) ==
    LET start_k == d.start_key
        end_k   == d.end_key
        start_s == d.range_start_suffix_clean
        end_s   == d.range_end_suffix_clean
        qs      == clean_suffix(q_suffix)
    IN  IF q_key < start_k \/ q_key > end_k THEN FALSE
        ELSE IF ~strict_suffix THEN TRUE
        ELSE IF q_key > start_k /\ q_key < end_k THEN TRUE
        ELSE IF q_key = start_k /\ start_s # <<>> /\ StrLess(qs, start_s) THEN FALSE
        ELSE IF q_key = end_k /\ end_s # <<>> /\ StrLess(end_s, qs) THEN FALSE
        ELSE TRUE

\* span_key(d)
span_key(d) ==
    IF d.end_key >= d.start_key THEN d.end_key - d.start_key
    ELSE d.start_key - d.end_key

\* x if x is not None else 10**9
OrSentinel(x) == IF x.st = "ok" THEN x.v ELSE 1000000000

\* the sort key with the row number ahead of the span
rank_key_row_first(d) ==
    <<OrSentinel(d.row), span_key(d), OrSentinel(d.shelf_level), OrSentinel(d.locker)>>

\* the sort key of rank_candidates
rank_key(d) ==
    <<span_key(d), OrSentinel(d.row), OrSentinel(d.shelf_level), OrSentinel(d.locker)>>

\* a < b for Python tuples of four integers
TupleLess(a, b) ==
    \E i \in 1..4 : a[i] < b[i] /\ \A j \in 1..(i - 1) : a[j] = b[j]

\* sorted() is stable: an item goes after every item whose key is not greater
RECURSIVE InsertSorted(_, _)
InsertSorted(sorted, d) ==
    IF sorted = <<>> THEN <<d>>
    ELSE IF TupleLess(rank_key(d), rank_key(Head(sorted)))
         THEN <<d>> \o sorted
         ELSE <<Head(sorted)>> \o InsertSorted(Tail(sorted), d)

RECURSIVE SortFrom(_, _)
SortFrom(acc, items) ==
    IF items = <<>> THEN acc ELSE SortFrom(InsertSorted(acc, Head(items)), Tail(items))

\* rank_candidates(items)
rank_candidates(items) == SortFrom(<<>>, items)

----------------------------------------------------------------------------
(* Index construction: src/main.py lines 29-44, 131-184 *)

\* to_int: int(float(x)) truncates toward zero; None, a failed float() and
\* a non-finite float (int() raises, and the except catches it) give None.
int_of_float(f) ==
    IF f.kind # "fin" THEN None
    ELSE IF f.k >= 10 THEN Some(0)
    ELSE IF f.n >= 0 THEN Some(f.n \div Pow10(f.k))
    ELSE Some(0 - ((0 - f.n) \div Pow10(f.k)))
to_int(x) == int_of_float(to_float(x))

\* str(d[c]).strip() if d.get(c) is not None else ""
text_of(x) == IF x.ty = "none" THEN <<>> ELSE strip(str(x))

\* lines 169-170: the numeric column if it converted, else the raw text
boundary_key(num, rawtext) ==
    num_to_key(IF num.kind # "none" THEN PyFloat(num) ELSE PyStr(rawtext))

\* lines 146-166: the converted columns of worksheet row r
convert_row(r) ==
    [range_start_num    |-> to_float(r.range_start_num),
     range_end_num      |-> to_float(r.range_end_num),
     row                |-> to_int(r.row),
     shelf_level        |-> to_int(r.shelf_level),
     locker             |-> to_int(r.locker),
     building_floor     |-> to_int(r.building_floor),
     id                 |-> text_of(r.id),
     side               |-> text_of(r.side),
     category           |-> text_of(r.category),
     call_range         |-> text_of(r.call_range),
     map_url            |-> text_of(r.map_url),
     range_start_raw    |-> text_of(r.range_start_raw),
     range_end_raw      |-> text_of(r.range_end_raw),
     range_start_suffix |-> text_of(r.range_start_suffix),
     range_end_suffix   |-> text_of(r.range_end_suffix)]

\* lines 169-174: the keys and the cleaned suffixes, from the converted columns
with_keys(d) ==
    [range_start_num          |-> d.range_start_num,
     range_end_num            |-> d.range_end_num,
     row                      |-> d.row,
     shelf_level              |-> d.shelf_level,
     locker                   |-> d.locker,
     building_floor           |-> d.building_floor,
     id                       |-> d.id,
     side                     |-> d.side,
     category                 |-> d.category,
     call_range               |-> d.call_range,
     map_url                  |-> d.map_url,
     range_start_raw          |-> d.range_start_raw,
     range_end_raw            |-> d.range_end_raw,
     range_start_suffix       |-> d.range_start_suffix,
     range_end_suffix         |-> d.range_end_suffix,
     start_key                |-> boundary_key(d.range_start_num, d.range_start_raw),
     end_key                  |-> boundary_key(d.range_end_num, d.range_end_raw),
     range_start_suffix_clean |-> clean_suffix(d.range_start_suffix),
     range_end_suffix_clean   |-> clean_suffix(d.range_end_suffix)]

\* lines 146-174: the dict d built from worksheet row r
build_row(r) == with_keys(convert_row(r))

\* lines 176-180: a row with a None key is skipped, the others are appended
\* with their keys as plain integers
keep_row(d) == d.start_key.st = "ok" /\ d.end_key.st = "ok"
index_row(d) == [d EXCEPT !.start_key = d.start_key.v, !.end_key = d.end_key.v]

index_rows(ds) == [i \in DOMAIN ds |-> index_row(ds[i])]
build_rows(ws) == index_rows(SelectSeq([i \in DOMAIN ws |-> build_row(ws[i])], keep_row))

\* lines 144-182 on worksheet ws: the list of rows, unless num_to_key raised
\* on some row, which ends load_data with that exception
build(ws) ==
    IF \E i \in DOMAIN ws, k \in {"start_key", "end_key"} : build_row(ws[i])[k].st = "raise"
    THEN [st |-> "raise", rows |-> <<>>]
    ELSE [st |-> "ok", rows |-> build_rows(ws)]

----------------------------------------------------------------------------
(* The /search handler's computation: src/main.py lines 259-383 *)

location_of(d) ==
    [row |-> d.row, shelf_level |-> d.shelf_level, locker |-> d.locker,
     building_floor |-> d.building_floor, side |-> d.side]

\* lines 285-305
call_number_result(d) ==
    [id |-> d.id, call_range |-> d.call_range, category |-> d.category,
     location |-> location_of(d),
     range |-> [start_raw |-> d.range_start_raw, end_raw |-> d.range_end_raw,
                start_key |-> d.start_key, end_key |-> d.end_key,
                start_suffix |-> d.range_start_suffix_clean,
                end_suffix |-> d.range_end_suffix_clean],
     map_url |-> d.map_url]

\* lines 354-366
text_result(d) ==
    [id |-> d.id, call_range |-> d.call_range, category |-> d.category,
     location |-> location_of(d), map_url |-> d.map_url]

\* items[:limit]
Take(items, limit) == SubSeq(items, 1, Min(limit, Len(items)))

\* an Optional[int] in an f-string: the digits, or "None"
fmt(x) == IF x.st = "ok" THEN IntStr(x.v) ELSE <<78, 111, 110, 101>>

\* lines 312-314 and 372-373: " แถว {row} ชั้น {shelf_level} ล็อค {locker}
\* อาคารชั้น {building_floor} (ด้าน{side})"
where_message(loc) ==
    <<32, 3649, 3606, 3623, 32>> \o fmt(loc.row)
    \o <<32, 3594, 3633, 3657, 3609, 32>> \o fmt(loc.shelf_level)
    \o <<32, 3621, 3655, 3629, 3588, 32>> \o fmt(loc.locker)
    \o <<32, 3629, 3634, 3588, 3634, 3619, 3594, 3633, 3657, 3609, 32>>
    \o fmt(loc.building_floor)
    \o <<32, 40, 3604, 3657, 3634, 3609>> \o loc.side \o <<41>>

\* lines 311-315: "พบหนังสือที่ แถว ..."
call_number_message(top) ==
    <<3614, 3610, 3627, 3609, 3633, 3591, 3626, 3639, 3629, 3607, 3637, 3656>>
    \o where_message(top.location)

\* lines 371-374: "พบหมวด '{category}' ที่ แถว ..."
text_message(top) ==
    <<3614, 3610, 3627, 3617, 3623, 3604, 32, 39>> \o top.category
    \o <<39, 32, 3607, 3637, 3656>> \o where_message(top.location)

\* lines 274-278: the hints of a call-number query without a match
call_number_suggest == <<
    <<3621, 3629, 3591, 3614, 3636, 3617, 3614, 3660, 3648, 3593, 3614, 3634,
      3632, 3605, 3633, 3623, 3648, 3621, 3586, 32, 3648, 3594, 3656, 3609, 32,
      51, 55, 48, 46, 49, 49, 51, 32, 3627, 3619, 3639, 3629, 32, 51, 55, 48,
      49, 49, 51>>,
    <<3606, 3657, 3634, 3617, 3637, 3605, 3633, 3623, 3629, 3633, 3585, 3625,
      3619, 3652, 3607, 3618, 3607, 3657, 3634, 3618, 3648, 3621, 3586, 32,
      3651, 3627, 3657, 3651, 3626, 3656, 3604, 3657, 3623, 3618, 32, 3648,
      3594, 3656, 3609, 32, 51, 55, 48, 46, 49, 49, 51, 3614>>,
    <<3627, 3619, 3639, 3629, 3588, 3657, 3609, 3604, 3657, 3623, 3618, 3594,
      3639, 3656, 3629, 3627, 3617, 3623, 3604, 32, 3648, 3594, 3656, 3609, 32,
      3626, 3633, 3591, 3588, 3617, 3624, 3634, 3626, 3605, 3619, 3660>> >>

\* lines 344-347: the hints of a text query without a match
text_suggest == <<
    <<3621, 3629, 3591, 3588, 3657, 3609, 3604, 3657, 3623, 3618, 3648, 3621,
      3586, 3627, 3617, 3623, 3604, 32, 3648, 3594, 3656, 3609, 32, 51, 55, 48,
      46, 49, 49, 51, 32, 3627, 3619, 3639, 3629, 32, 51, 55, 48, 49, 49, 51>>,
    <<3627, 3619, 3639, 3629, 3588, 3657, 3609, 3604, 3657, 3623, 3618, 3588,
      3635, 3627, 3617, 3623, 3604, 32, 3648, 3594, 3656, 3609, 32, 3626, 3633,
      3591, 3588, 3617, 3624, 3634, 3626, 3605, 3619, 3660, 32, 47, 32, 3623,
      3636, 3607, 3618, 3634, 3624, 3634, 3626, 3605, 3619, 3660>> >>

\* lines 285-325: the response for the ranked hits cut at the limit
call_number_found(q, norm, top) ==
    [found |-> TRUE, mode |-> "call_number", query |-> q,
     normalized |-> norm, count |-> Len(top),
     message |-> call_number_message(call_number_result(top[1])),
     results |-> [i \in DOMAIN top |-> call_number_result(top[i])]]
call_number_response(q, norm, hits, limit) ==
    IF hits = <<>>
    THEN [found |-> FALSE, mode |-> "call_number", query |-> q,
          normalized |-> norm, results |-> <<>>,
          suggest |-> call_number_suggest]
    ELSE call_number_found(q, norm, Take(rank_candidates(hits), limit))

\* search_call_number with the query suffix never enforced (strict_suffix
\* always False)
search_call_number_lenient(rows, q, q_key, q_suffix, limit) ==
    LET Hit(d) == match_row(d, q_key, q_suffix, FALSE)
    IN  call_number_response(q, [key |-> q_key, suffix |-> clean_suffix(q_suffix)],
                             SelectSeq(rows, Hit), limit)

\* lines 263-325: the query gave a key
search_call_number(rows, q, q_key, q_suffix, limit) ==
    LET Hit(d) == match_row(d, q_key, q_suffix, clean_suffix(q_suffix) # <<>>)
    IN  call_number_response(q, [key |-> q_key, suffix |-> clean_suffix(q_suffix)],
                             SelectSeq(rows, Hit), limit)

\* lines 327-383: substring search over category, call_range and id
text_hit(d, q_low) ==
    \/ Contains(lower(d.category), q_low)
    \/ Contains(lower(d.call_range), q_low)
    \/ Contains(lower(d.id), q_low)
text_found(q, top) ==
    [found |-> TRUE, mode |-> "text", query |-> q, count |-> Len(top),
     message |-> text_message(text_result(top[1])),
     results |-> [i \in DOMAIN top |-> text_result(top[i])]]
text_response(q, hits, limit) ==
    IF hits = <<>>
    THEN [found |-> FALSE, mode |-> "text", query |-> q, results |-> <<>>,
          suggest |-> text_suggest]
    ELSE text_found(q, Take(hits, limit))
search_text(rows, q, limit) ==
    LET Hit(d) == text_hit(d, lower(q))
    IN  text_response(q, SelectSeq(rows, Hit), limit)

\* lines 259-383 once the query is parsed; an exception out of
\* normalize_call_number ends the handler (mode "raise")
search_parsed(rows, q, n, limit) ==
    IF n.key.st = "raise" THEN [mode |-> "raise"]
    ELSE IF n.key.st = "ok"
    THEN search_call_number(rows, q, n.key.v, n.suffix, limit)
    ELSE search_text(rows, q, limit)

\* search(q, limit) over the list load_data() returned
search(rows, q0, limit) ==
    search_parsed(rows, strip(q0), normalize_call_number(strip(q0)), limit)

----------------------------------------------------------------------------
(* Bounds and inputs *)

MaxInt    == 4      \* digits before the point in a parser input
MaxFrac   == 3      \* digits after the point in a parser input
MaxSuffix == 2      \* characters of a suffix handed to match_row
MaxRows   == 3      \* data rows of the worksheet under SpecSearch
MaxSheet  == 1      \* data rows of the worksheet under Spec
MaxLimit  == 2      \* the limit parameter of /search ranges over 1..MaxLimit

Threads == {1, 2}   \* worker threads of the server's thread pool

SeqsUpTo(S, n) == UNION {[1..m -> S] : m \in 0..n}

\* parser inputs: <int digits><points><frac digits><tail>
IntDigits   == {48, 51, 55}                     \* "0" "3" "7"
FracDigits  == {48, 49, 51}                     \* "0" "1" "3"
Points      == {<<>>, <<46>>, <<46, 46>>}       \* ""  "."  ".."
Tails       == {<<>>, <<88>>, <<3585>>,         \* ""  "X"  "ก"
                <<160, 3586, 3604>>,            \* "\xa0ขด" (no-break space)
                <<3585, 3586, 3604, 3585>>,     \* "กขดก"
                <<88, 46>>}                     \* "X."
\* decimal ties of v * 1000 that the double product leaves upward, downward
\* and not at all
TieInputs   == {<<50, 46, 48, 48, 48, 53>>,                 \* "2.0005"
                <<48, 46, 53, 48, 49, 53>>,                 \* "0.5015"
                <<48, 46, 48, 54, 50, 53>>,                 \* "0.0625"
                <<49, 51, 48, 46, 48, 49, 48, 53, 3585>>}   \* "130.0105ก"
ParseInputs(ints, fracs) ==
    {i \o p \o f \o tl : i \in SeqsUpTo(IntDigits, ints), p \in Points,
                         f \in SeqsUpTo(FracDigits, fracs), tl \in Tails}
        \cup TieInputs

\* match_row inputs
MatchKeys     == {370000, 370500, 371000}
MatchSuffixes == SeqsUpTo({3585, 3586}, MaxSuffix)   \* over "ก" "ข"

\* worksheet rows
Row(id, call_range, category, sn, en, sr, er, ss, es, row, shelf, locker) ==
    [id |-> id, call_range |-> call_range, category |-> category,
     side |-> PyStr(<<65>>), map_url |-> PyNone, building_floor |-> PyInt(2),
     range_start_num |-> sn, range_end_num |-> en,
     range_start_raw |-> sr, range_end_raw |-> er,
     range_start_suffix |-> ss, range_end_suffix |-> es,
     row |-> row, shelf_level |-> shelf, locker |-> locker]

T370    == <<51, 55, 48>>                       \* "370"
T371    == <<51, 55, 49>>                       \* "371"
T370d1  == <<51, 55, 48, 46, 49>>               \* "370.1"
T370d3  == <<51, 55, 48, 46, 51>>               \* "370.3"
TRange  == <<51, 55, 48, 45, 51, 55, 49>>       \* "370-371"
TRangeN == <<51, 55, 48, 8211, 51, 55, 49>>     \* "370–371" (en dash)

\* numeric columns 370 .. 371, category "aé"
RowWide ==
    Row(PyStr(<<49>>), PyStr(TRange), PyStr(<<97, 233>>), PyInt(370), PyInt(371),
        PyNone, PyNone, PyNone, PyNone, PyInt(1), PyInt(1), PyInt(1))
\* numbers 370 .. 370.5 in the raw text columns, a number as id
RowNarrow ==
    Row(PyInt(2), PyNone, PyStr(<<98>>), PyNone, PyNone,
        PyInt(370), PyFloat(Fin(3705, 1)), PyNone, PyNone, PyInt(2), PyInt(1), PyInt(1))
\* raw text "370.1" .. "370.3" with suffix columns "ข" .. "ด", no row number
RowSuffixed ==
    Row(PyStr(<<51>>), PyNone, PyStr(<<98>>), PyNone, PyNone,
        PyStr(T370d1), PyStr(T370d3), PyStr(<<3586>>), PyStr(<<3604>>),
        PyNone, PyInt(1), PyInt(1))
\* raw text "abc" .. "def"
RowUnparseable ==
    Row(PyStr(<<52>>), PyNone, PyStr(<<98>>), PyNone, PyNone,
        PyStr(<<97, 98, 99>>), PyStr(<<100, 101, 102>>), PyNone, PyNone,
        PyInt(1), PyInt(1), PyInt(1))
\* only the combined range text "370–371"
RowCombined ==
    Row(PyStr(<<53>>), PyStr(TRangeN), PyStr(<<98>>), PyNone, PyNone,
        PyNone, PyNone, PyNone, PyNone, PyInt(1), PyInt(1), PyInt(1))
\* the text "nan" in the numeric start column
RowNaN ==
    Row(PyStr(<<54>>), PyNone, PyStr(<<98>>), PyStr(<<110, 97, 110>>), PyInt(371),
        PyNone, PyNone, PyNone, PyNone, PyInt(1), PyInt(1), PyInt(1))
\* numeric columns 370.0 .. 371.0, no shelf level
RowTie ==
    Row(PyStr(<<55>>), PyNone, PyStr(<<98>>), PyFloat(Fin(370, 0)), PyFloat(Fin(371, 0)),
        PyNone, PyNone, PyNone, PyNone, PyInt(1), PyNone, PyInt(2))

RowPool    == {RowWide, RowNarrow, RowSuffixed, RowUnparseable, RowCombined, RowNaN, RowTie}
SearchRows == {RowWide, RowNarrow, RowSuffixed, RowUnparseable, RowTie}

Queries == {
    T370,                                       \* "370"
    T370d1 \o <<3585>>,                         \* "370.1ก"
    <<160>> \o T370d1 \o <<160, 3586>>,         \* "\xa0370.1\xa0ข"
    <<57, 57, 57, 46, 57, 57, 57>>,             \* "999.999"
    <<51, 46, 49, 46, 51>>,                     \* "3.1.3"
    <<65, 201>> }                               \* "AÉ"

----------------------------------------------------------------------------
(* SpecParse: the parser applied to one input *)

systemIdle ==
    /\ sheet = <<>> /\ _rows = [gen |-> 0, rows |-> <<>>]
    /\ pc = [t \in Threads |-> "idle"] /\ ep = [t \in Threads |-> "none"]
    /\ data = [t \in Threads |-> [gen |-> 0, rows |-> <<>>]]
    /\ builds = 0 /\ last = [kind |-> "none"]

parseIdle == raw = <<>> /\ parsed = [key |-> None, suffix |-> <<>>] /\ bkey = None /\ pstep = "off"

matchIdle == marg = <<>> /\ mres = FALSE /\ mstep = "off"

InitParse ==
    /\ raw \in ParseInputs(MaxInt, MaxFrac)
    /\ parsed = [key |-> None, suffix |-> <<>>]
    /\ bkey = None
    /\ pstep = "input"
    /\ matchIdle /\ systemIdle

\* a query: normalize_call_number(raw)
Parse ==
    /\ pstep = "input"
    /\ parsed' = normalize_call_number(raw)
    /\ pstep' = "parsed"
    /\ UNCHANGED <<raw, bkey, matchVars, systemVars>>

\* a row boundary: load_data's key for a row whose range_start_raw cell holds
\* raw and whose numeric column is empty
BuildKey ==
    /\ pstep = "parsed"
    /\ bkey' = boundary_key(to_float(PyNone), text_of(PyStr(raw)))
    /\ pstep' = "built"
    /\ UNCHANGED <<raw, parsed, matchVars, systemVars>>

NextParse == Parse \/ BuildKey
SpecParse == InitParse /\ [][NextParse]_vars

----------------------------------------------------------------------------
(* SpecMatch: match_row applied to one range and one query *)

InitMatch ==
    /\ marg \in [start_key : MatchKeys, end_key : MatchKeys,
                 range_start_suffix_clean : MatchSuffixes,
                 range_end_suffix_clean : MatchSuffixes,
                 q_key : MatchKeys, q_suffix : MatchSuffixes,
                 strict_suffix : BOOLEAN]
    /\ mres = FALSE
    /\ mstep = "input"
    /\ parseIdle /\ systemIdle

Match ==
    /\ mstep = "input"
    /\ mres' = match_row(marg, marg.q_key, marg.q_suffix, marg.strict_suffix)
    /\ mstep' = "done"
    /\ UNCHANGED <<marg, parseVars, systemVars>>

NextMatch == Match
SpecMatch == InitMatch /\ [][NextMatch]_vars

----------------------------------------------------------------------------
(* Spec: worker threads serving /health and /search over the cache _rows *)

NoList == [gen |-> 0, rows |-> <<>>]        \* Python None in place of a list

Init ==
    /\ sheet \in SeqsUpTo(RowPool, MaxSheet)
    /\ _rows = NoList
    /\ pc = [t \in Threads |-> "idle"]
    /\ ep = [t \in Threads |-> "none"]
    /\ data = [t \in Threads |-> NoList]
    /\ builds = 0
    /\ last = [kind |-> "none"]
    /\ parseIdle /\ matchIdle

\* A request for endpoint e reaches thread t; the handler calls load_data(),
\* which reads the cache (lines 134-135).
Begin(t, e) ==
    /\ pc[t] = "idle"
    /\ ep' = [ep EXCEPT ![t] = e]
    /\ IF _rows # NoList
       THEN /\ data' = [data EXCEPT ![t] = _rows]
            /\ pc' = [pc EXCEPT ![t] = "respond"]
       ELSE /\ data' = [data EXCEPT ![t] = NoList]
            /\ pc' = [pc EXCEPT ![t] = "build"]
    /\ UNCHANGED <<sheet, _rows, builds, last, parseVars, matchVars>>

\* lines 137-182: the workbook is read and the local list rows is built; an
\* exception leaves load_data and the handler, and the request fails.
LoadBuild(t) ==
    /\ pc[t] = "build"
    /\ \E b \in {build(sheet)} :
           IF b.st = "raise"
           THEN /\ pc' = [pc EXCEPT ![t] = "idle"]
                /\ ep' = [ep EXCEPT ![t] = "none"]
                /\ last' = [kind |-> "error", endpoint |-> ep[t]]
                /\ UNCHANGED <<data, builds>>
           ELSE /\ pc' = [pc EXCEPT ![t] = "store"]
                /\ data' = [data EXCEPT ![t] = [gen |-> builds + 1, rows |-> b.rows]]
                /\ builds' = builds + 1
                /\ UNCHANGED <<ep, last>>
    /\ UNCHANGED <<sheet, _rows, parseVars, matchVars>>

\* line 183: _rows = rows
LoadStore(t) ==
    /\ pc[t] = "store"
    /\ _rows' = data[t]
    /\ pc' = [pc EXCEPT ![t] = "return"]
    /\ UNCHANGED <<sheet, ep, data, builds, last, parseVars, matchVars>>

\* line 184: return _rows
LoadReturn(t) ==
    /\ pc[t] = "return"
    /\ data' = [data EXCEPT ![t] = _rows]
    /\ pc' = [pc EXCEPT ![t] = "respond"]
    /\ UNCHANGED <<sheet, _rows, ep, builds, last, parseVars, matchVars>>

\* lines 250 and 259-383: the rest of the handler, over the list it was given
Respond(t) ==
    /\ pc[t] = "respond"
    /\ \/ /\ ep[t] = "health"
          /\ last' = [kind |-> "health", ok |-> TRUE, rows |-> Len(data[t].rows)]
       \/ /\ ep[t] = "search"
          /\ \E q \in Queries, limit \in 1..MaxLimit :
                \E resp \in {search(data[t].rows, q, limit)} :
                    last' = IF resp.mode = "raise"
                            THEN [kind |-> "error", endpoint |-> "search"]
                            ELSE [kind |-> "search", q |-> q, limit |-> limit,
                                  resp |-> resp]
    /\ pc' = [pc EXCEPT ![t] = "idle"]
    /\ ep' = [ep EXCEPT ![t] = "none"]
    /\ data' = [data EXCEPT ![t] = NoList]
    /\ UNCHANGED <<sheet, _rows, builds, parseVars, matchVars>>

Next ==
    \E t \in Threads :
        \/ Begin(t, "health")
        \/ Begin(t, "search")
        \/ LoadBuild(t)
        \/ LoadStore(t)
        \/ LoadReturn(t)
        \/ Respond(t)

Spec == Init /\ [][Next]_vars

\* the same handlers served by a single worker thread
NextSearch ==
    \/ Begin(1, "health")
    \/ Begin(1, "search")
    \/ LoadBuild(1)
    \/ LoadStore(1)
    \/ LoadReturn(1)
    \/ Respond(1)

InitSearch ==
    /\ sheet \in SeqsUpTo(SearchRows, MaxRows)
    /\ _rows = NoList
    /\ pc = [t \in Threads |-> "idle"]
    /\ ep = [t \in Threads |-> "none"]
    /\ data = [t \in Threads |-> NoList]
    /\ builds = 0
    /\ last = [kind |-> "none"]
    /\ parseIdle /\ matchIdle

SpecSearch == InitSearch /\ [][NextSearch]_vars

----------------------------------------------------------------------------
(* Claims about the parser (SpecParse) *)

HasDigit(s) == \E i \in DOMAIN s : IsDigit(s[i])
AllDigits(s) == \A i \in DOMAIN s : IsDigit(s[i])

\* s without one trailing suffix character ("X" or a Thai character)
WithoutSuffixChar(s) ==
    IF s # <<>> /\ (s[Len(s)] = 88 \/ IsThai(s[Len(s)])) THEN SubSeq(s, 1, Len(s) - 1) ELSE s

\* the digits after the three-digit integer part of body, with or without the point
FracOf(body) ==
    LET rest == SubSeq(body, 4, Len(body))
    IN  IF rest # <<>> /\ Head(rest) = 46 THEN Tail(rest) ELSE rest

\* raw is "ddd.fff" or "dddfff", fff of 0 to 3 digits, alone or followed by
\* one suffix character
IsClassificationForm(s) ==
    LET body == WithoutSuffixChar(s)
    IN  /\ Len(body) >= 3
        /\ AllDigits(SubSeq(body, 1, 3))
        /\ AllDigits(FracOf(body))
        /\ Len(FracOf(body)) <= 3

\* ddd * 1000 + fff right-padded with zeros to three digits
ClassificationKey(s) ==
    LET body == WithoutSuffixChar(s)
        fff  == FracOf(body)
    IN  DigitsValue(SubSeq(body, 1, 3)) * 1000 + DigitsValue(fff) * Pow10(3 - Len(fff))

\* C1: every textual form of a classification code ddd.fff (dotted or
\* undotted, with or without a trailing script or non-script suffix
\* character) normalizes to the key ddd * 1000 + fff padded to three digits.
C1_OneKeyPerCode ==
    (pstep # "input" /\ IsClassificationForm(raw))
        => parsed.key = Some(ClassificationKey(raw))

\* raw is <digits>.<digits>, alone or followed by one Thai suffix character
IsDottedNumber(s) ==
    LET body == IF s # <<>> /\ IsThai(s[Len(s)]) THEN SubSeq(s, 1, Len(s) - 1) ELSE s
        dots == {i \in DOMAIN body : body[i] = 46}
    IN  /\ Cardinality(dots) = 1
        /\ \A i \in DOMAIN body : IsNumChar(body[i])
        /\ body[1] # 46 /\ body[Len(body)] # 46

\* key is the value of a dotted number times 1000 rounded to a nearest
\* integer (either neighbour on a tie)
IsDottedTimes1000(s, key) ==
    LET body == IF IsThai(s[Len(s)]) THEN SubSeq(s, 1, Len(s) - 1) ELSE s
        dot  == CHOOSE i \in DOMAIN body : body[i] = 46
        n    == DigitsValue(SelectSeq(body, IsDigit))
        k    == Len(body) - dot
        off  == key * Pow10(k - 3) - n
    IN  IF k <= 3 THEN key = n * Pow10(3 - k)
        ELSE 2 * (IF off < 0 THEN 0 - off ELSE off) <= Pow10(k - 3)

\* C9: a numeric part with a decimal point gets the key value * 1000 rounded,
\* whatever the number of digits before the point.
C9_DottedTimes1000 ==
    (pstep # "input" /\ IsDottedNumber(raw))
        => (parsed.key.st = "ok" /\ IsDottedTimes1000(raw, parsed.key.v))

\* C10: a boundary text that the query parser gives a key gets the same key
\* as a row boundary in load_data.
C10_BoundaryKeyIsQueryKey ==
    (pstep = "built" /\ parsed.key.st = "ok") => bkey = parsed.key

----------------------------------------------------------------------------
(* Claims about match_row (SpecMatch) *)

\* a >= b and a <= b for strings, from the code-point order
StrGeq(a, b) == ~StrLess(a, b)
StrLeq(a, b) == ~StrLess(b, a)

\* the six rules of the matcher as one condition: the key is within the
\* bounds and, under strict matching, each boundary the key touches whose
\* own suffix is non-empty admits the query suffix
SixRules(a) ==
    /\ a.start_key <= a.q_key /\ a.q_key <= a.end_key
    /\ a.strict_suffix =>
          /\ (a.q_key = a.start_key /\ a.range_start_suffix_clean # <<>>)
                => StrGeq(a.q_suffix, a.range_start_suffix_clean)
          /\ (a.q_key = a.end_key /\ a.range_end_suffix_clean # <<>>)
                => StrLeq(a.q_suffix, a.range_end_suffix_clean)

\* C2: match_row returns true exactly when the six ordered rules hold; both
\* boundary keys match when the query carries no suffix, and a boundary whose
\* range suffix is empty puts no constraint on the query suffix.  (Suffixes
\* are what the parser produces: at most three script characters.)
C2_MatchRowRules ==
    mstep = "done" =>
        /\ mres <=> SixRules(marg)
        /\ (~marg.strict_suffix /\ marg.start_key <= marg.end_key
              /\ marg.q_key \in {marg.start_key, marg.end_key}) => mres
        /\ (marg.start_key < marg.end_key /\ marg.q_key = marg.start_key
              /\ marg.range_start_suffix_clean = <<>>) => mres
        /\ (marg.start_key < marg.end_key /\ marg.q_key = marg.end_key
              /\ marg.range_end_suffix_clean = <<>>) => mres

\* a strict query on the start boundary is refused for its suffix alone
C2_Witness ==
    /\ mstep = "done" /\ marg.strict_suffix /\ ~mres
    /\ marg.q_key = marg.start_key /\ marg.q_key < marg.end_key
    /\ marg.range_start_suffix_clean # <<>>
    /\ StrLess(marg.q_suffix, marg.range_start_suffix_clean)

----------------------------------------------------------------------------
(* Claims about the handlers (Spec, SpecSearch) *)

Count(s, x) == Cardinality({i \in DOMAIN s : s[i] = x})

\* the parse of the query of the last /search response, and the index rows
\* the matcher accepts for it with strict = (cleaned suffix non-empty)
LastParse == normalize_call_number(strip(last.q))
AcceptedFor(n, d) == match_row(d, n.key.v, n.suffix, clean_suffix(n.suffix) # <<>>)
LastMatches ==
    LET n == LastParse
        Acc(d) == AcceptedFor(n, d)
        m == SelectSeq(_rows.rows, Acc)
    IN  [i \in DOMAIN m |-> call_number_result(m[i])]

\* the ranking tuple read off a result: span, then row, shelf level and
\* locker with 10^9 for an absent one
ResultSpan(r) ==
    IF r.range.end_key >= r.range.start_key
    THEN r.range.end_key - r.range.start_key
    ELSE r.range.start_key - r.range.end_key
AbsentLast(x) == IF x.st = "ok" THEN x.v ELSE 1000000000
ResultRank(r) ==
    <<ResultSpan(r), AbsentLast(r.location.row), AbsentLast(r.location.shelf_level),
      AbsentLast(r.location.locker)>>

\* C3: parsing yields a key exactly for the queries that contain a digit, so
\* /search answers in mode "text" exactly for the queries without a digit.
C3_TextModeOnlyWithoutDigit ==
    last.kind = "search" =>
        /\ (LastParse.key.st = "ok") <=> HasDigit(last.q)
        /\ (last.resp.mode = "text") <=> ~HasDigit(last.q)

\* C4: in call-number mode the results are the first min(limit, n) of the n
\* matching ranges in ascending order of (span, row, shelf level, locker):
\* nothing added or duplicated, count = min(limit, n), no omitted match
\* ranks before a returned one, and the top hit has the least span.
C4_RankedPrefix ==
    (last.kind = "search" /\ last.resp.mode = "call_number") =>
        LET res == last.resp.results
            all == LastMatches
            k   == Min(last.limit, Len(all))
        IN  /\ Len(res) = k
            /\ last.resp.found => last.resp.count = k
            /\ \A i \in DOMAIN res : Count(res, res[i]) <= Count(all, res[i])
            /\ \A i, j \in DOMAIN res :
                  i < j => ~TupleLess(ResultRank(res[j]), ResultRank(res[i]))
            /\ \A i \in DOMAIN res, j \in DOMAIN all :
                  Count(res, all[j]) < Count(all, all[j])
                      => ~TupleLess(ResultRank(all[j]), ResultRank(res[i]))
            /\ \A i, j \in DOMAIN res :
                  ResultSpan(res[i]) < ResultSpan(res[j]) => i < j
            /\ \A j \in DOMAIN all :
                  res # <<>> => ResultSpan(res[1]) <= ResultSpan(all[j])

\* three ranges match, the index holds a wider one before a narrower one, and
\* the limit cuts the ranked list
C4_Witness ==
    /\ last.kind = "search" /\ last.resp.mode = "call_number" /\ last.resp.found
    /\ last.limit >= 2
    /\ LET all == LastMatches
       IN  /\ Len(all) > last.limit
           /\ \E i, j \in DOMAIN all : i < j /\ ResultSpan(all[j]) < ResultSpan(all[i])

\* the sides of a combined range text "<start>-<end>"
RangeSides(s) ==
    LET u  == replace_dashes(s)
        hy == {i \in DOMAIN u : u[i] = 45}
        i  == CHOOSE a \in hy : \A b \in hy : a <= b
    IN  IF hy = {} THEN <<u, <<>>>> ELSE <<SubSeq(u, 1, i - 1), SubSeq(u, i + 1, Len(u))>>

\* r supplies the combined range text and no separate start/end column
CombinedOnly(r) ==
    /\ r.call_range.ty = "str"
    /\ r.range_start_num.ty = "none" /\ r.range_end_num.ty = "none"
    /\ r.range_start_raw.ty = "none" /\ r.range_end_raw.ty = "none"
    /\ normalize_call_number(RangeSides(r.call_range.s)[1]).key.st = "ok"
    /\ normalize_call_number(RangeSides(r.call_range.s)[2]).key.st = "ok"

\* C5: a row that supplies only the combined range text "<start>-<end>" with
\* parseable sides is kept in the index, with the keys parsed from the sides.
C5_CombinedRangeIndexed ==
    _rows # NoList =>
        \A i \in DOMAIN sheet :
            CombinedOnly(sheet[i]) =>
                \E j \in DOMAIN _rows.rows :
                    /\ _rows.rows[j].id = text_of(sheet[i].id)
                    /\ _rows.rows[j].start_key =
                          normalize_call_number(RangeSides(sheet[i].call_range.s)[1]).key.v
                    /\ _rows.rows[j].end_key =
                          normalize_call_number(RangeSides(sheet[i].call_range.s)[2]).key.v

\* both boundaries of worksheet row r give a key
BothKeysParse(r) ==
    /\ boundary_key(to_float(r.range_start_num), text_of(r.range_start_raw)).st = "ok"
    /\ boundary_key(to_float(r.range_end_num), text_of(r.range_end_raw)).st = "ok"

IdsOf(s) == [i \in DOMAIN s |-> s[i].id]
SheetIds(s) == [i \in DOMAIN s |-> text_of(s[i].id)]

\* C6: no request fails because of a bad row; the index holds exactly the
\* rows with both keys parseable, in worksheet order; a row with an
\* unparseable boundary is in no search result.
C6_BadRowsDroppedNeverFatal ==
    /\ last.kind # "error"
    /\ _rows # NoList => IdsOf(_rows.rows) = SheetIds(SelectSeq(sheet, BothKeysParse))
    /\ last.kind = "search" =>
          \A i \in DOMAIN last.resp.results, j \in DOMAIN sheet :
              ~BothKeysParse(sheet[j]) => last.resp.results[i].id # text_of(sheet[j].id)

\* C7: the row list is constructed at most once, every load_data call hands
\* out that one list, and the cache never holds a second list.
C7_BuiltAtMostOnce ==
    /\ builds <= 1
    /\ _rows.gen <= 1
    /\ \A t \in Threads : data[t].gen <= 1

\* C8: when the query parses to a key the response is in call-number mode,
\* every result is a range match_row accepts for the key, the suffix and
\* strict = (cleaned suffix non-empty); with no accepted range the response
\* is found:false with no results; found holds iff there are results.
C8_CallNumberModeExact ==
    last.kind = "search" =>
        LET n == LastParse
        IN  n.key.st = "ok" =>
            /\ last.resp.mode = "call_number"
            /\ \A i \in DOMAIN last.resp.results :
                  \E j \in DOMAIN _rows.rows :
                      /\ AcceptedFor(n, _rows.rows[j])
                      /\ last.resp.results[i] = call_number_result(_rows.rows[j])
            /\ (\A j \in DOMAIN _rows.rows : ~AcceptedFor(n, _rows.rows[j]))
                  => (~last.resp.found /\ last.resp.results = <<>>)
            /\ last.resp.found <=> last.resp.results # <<>>

\* a strict query is answered from an index that also holds a range whose
\* key bounds contain the key but whose boundary suffix refuses it
C8_Witness ==
    /\ last.kind = "search"
    /\ LET n == LastParse
       IN  /\ n.key.st = "ok" /\ clean_suffix(n.suffix) # <<>>
           /\ last.resp.found
           /\ \E j \in DOMAIN _rows.rows :
                 /\ _rows.rows[j].start_key <= n.key.v
                 /\ n.key.v <= _rows.rows[j].end_key
                 /\ ~AcceptedFor(n, _rows.rows[j])
====
